---- MODULE Spec2Model ----
(***************************************************************************)
(* Model of main.py: the Tour Booking Calendar API.                        *)
(*                                                                         *)
(* The module-level code of main.py runs once at import (startup): it      *)
(* materialises token.json and client_secrets.json from the environment,   *)
(* loads the OAuth credential, refreshes it or runs the interactive flow,   *)
(* persists it and builds the shared service client.  Afterwards the three *)
(* routes are served.  The handlers are "async def" without any await, so  *)
(* each request is handled atomically on the event loop.                   *)
(*                                                                         *)
(* Optional values (Python None, a file that does not exist, an unset      *)
(* environment variable) are sequences of length 0 or 1.                   *)
(***************************************************************************)
EXTENDS Integers, Sequences, FiniteSets, TLC

VARIABLES
    pc,             \* position of the module-level code
    tokenFile,      \* token.json: <<>> (absent) or <<content>>
    secretsFile,    \* client_secrets.json: <<>> (absent) or <<content>>
    envToken,       \* os.environ TOKEN_FILE_CONTENT: <<>> (unset) or <<text>>
    envSecretsContent, \* os.environ GOOGLE_CLIENT_SECRETS_CONTENT
    envSecrets,     \* os.environ GOOGLE_CLIENT_SECRETS
    writable,       \* whether files in the working directory can be opened for writing
    creds,          \* the module global creds: <<>> (None) or <<credential>>
    service,        \* the module global service: <<>> before build(), <<"calendar">> after
    now,            \* wall clock
    req,            \* the HTTP request handled last: <<>> or <<request>>
    call,           \* the events().insert call made for that request: <<>> or <<call>>
    resp,           \* the HTTP response to that request: <<>> or <<response>>
    loaded,         \* history: creds as they were after line 72
    hadTokenFile,   \* history: whether token.json existed when the process started
    refreshCalls,   \* history: number of creds.refresh() calls
    flowRuns,       \* history: number of flow.run_local_server() calls
    persistFailed   \* history: the write of lines 80-81 raised

vars == <<pc, tokenFile, secretsFile, envToken, envSecretsContent, envSecrets,
          writable, creds, service, now, req, call, resp, loaded, hadTokenFile,
          refreshCalls, flowRuns, persistFailed>>

startupVars == <<pc, tokenFile, secretsFile, creds, service, loaded,
                 refreshCalls, flowRuns, persistFailed>>
envVars == <<envToken, envSecretsContent, envSecrets, writable, hadTokenFile>>
reqVars == <<req, call, resp>>

----------------------------------------------------------------------------
(* Bounds of the model *)

\* the clock runs from StartTime to MaxTime
MaxTime == 3
\* the time the process starts at
StartTime == 1
\* lifetime of an access token the authorization server hands out
TokenLifetime == 2

----------------------------------------------------------------------------
(* Credentials *)

None == "None"

\* google.oauth2.credentials.Credentials as main.py uses it: the access token, the
\* refresh token, and the expiry (<<>> when the credential carries none)
Cred(token, refresh_token, expiry) ==
    [token |-> token, refresh_token |-> refresh_token, expiry |-> expiry]

\* the credentials a token.json found at startup holds: valid ones (with and without
\* a refresh token), expired ones (with and without), and ones without access token
StoredCredentials ==
    {Cred("at_file", "rt_file", <<StartTime + 1>>),
     Cred("at_file", None, <<>>),
     Cred("at_file", "rt_file", <<0>>),
     Cred("at_file", None, <<0>>),
     Cred(None, "rt_file", <<>>),
     Cred(None, None, <<0>>)}

\* creds.to_json(): the text written to token.json
to_json(c) == <<"token", c.token, "refresh_token", c.refresh_token, "expiry", c.expiry>>

\* Credentials.from_authorized_user_file: the credential read from token.json's text
from_authorized_user_file(text) == Cred(text[2], text[4], text[6])

\* the texts token.json can hold at startup
TokenTexts == {to_json(c) : c \in StoredCredentials}

\* the texts TOKEN_FILE_CONTENT is drawn from: a valid credential and an expired one
EnvTokenTexts ==
    {to_json(Cred("at_env", "rt_env", <<StartTime + 1>>)),
     to_json(Cred("at_env", "rt_env", <<0>>))}

\* creds.expired at time t
expired(c, t) == c.expiry # <<>> /\ t >= c.expiry[1]

\* creds.valid at time t
valid(c, t) == c.token # None /\ ~expired(c, t)

\* the empty string
EmptyText == <<>>

\* truth value of what os.environ.get returns (None and "" are false)
Truthy(v) == v # <<>> /\ v[1] # EmptyText

\* the text of a client-secrets file
SecretsText == <<"installed", "client_id", "client_secret">>

\* the values an environment variable holding client secrets can have
SecretsEnv == {<<>>, <<EmptyText>>, <<SecretsText>>}

\* the values GOOGLE_CLIENT_SECRETS is drawn from
SecretsEnvLegacy == {<<>>, <<SecretsText>>}

\* NeedsCredential with a refresh token demanded of a credential that is kept
NeedsCredentialOrRefreshToken(c, t) ==
    c = <<>> \/ ~(c[1].token # None /\ ~(c[1].expiry # <<>> /\ t >= c[1].expiry[1]))
             \/ c[1].refresh_token = None

\* line 74: not creds or not creds.valid
NeedsCredential(c, t) == c = <<>> \/ ~valid(c[1], t)

\* CanRefresh without the test of creds.expired
CanRefreshUnexpired(c, t) == c # <<>> /\ c[1].refresh_token # None

\* line 75: creds and creds.expired and creds.refresh_token
CanRefresh(c, t) == c # <<>> /\ expired(c[1], t) /\ c[1].refresh_token # None

\* the credential creds.refresh(Request()) leaves in creds at time t
Refreshed(c, t) ==
    [c EXCEPT !.token = "at_refreshed", !.expiry = <<t + TokenLifetime>>]

\* the credential flow.run_local_server returns at time t
Authorized(t) ==
    Cred("at_flow", "rt_flow", <<t + TokenLifetime>>)

----------------------------------------------------------------------------
(* Startup: the module-level code, lines 36-83 *)

Init ==
    /\ pc = "token_json"
    /\ tokenFile \in {<<>>} \cup {<<x>> : x \in TokenTexts}
    /\ secretsFile \in {<<>>, <<SecretsText>>}
    /\ envToken \in {<<>>, <<EmptyText>>} \cup {<<x>> : x \in EnvTokenTexts}
    /\ envSecretsContent \in SecretsEnv
    /\ envSecrets \in SecretsEnvLegacy
    /\ writable \in BOOLEAN
    /\ creds = <<>>
    /\ service = <<>>
    /\ now = StartTime
    /\ req = <<>>
    /\ call = <<>>
    /\ resp = <<>>
    /\ loaded = <<>>
    /\ hadTokenFile = (tokenFile # <<>>)
    /\ refreshCalls = 0
    /\ flowRuns = 0
    /\ persistFailed = FALSE

\* lines 40-50: create token.json from TOKEN_FILE_CONTENT when it does not exist
HandleTokenJson ==
    /\ pc = "token_json"
    /\ IF tokenFile # <<>>
         THEN pc' = "client_secrets" /\ UNCHANGED tokenFile
         ELSE IF Truthy(envToken)
              THEN IF writable
                   THEN pc' = "client_secrets" /\ tokenFile' = <<envToken[1]>>
                   ELSE pc' = "failed" /\ UNCHANGED tokenFile
              ELSE pc' = "failed" /\ UNCHANGED tokenFile
    /\ UNCHANGED <<secretsFile, creds, service, loaded, refreshCalls, flowRuns,
                   persistFailed, now>>
    /\ UNCHANGED <<envVars, reqVars>>

\* line 54: GOOGLE_CLIENT_SECRETS_CONTENT or GOOGLE_CLIENT_SECRETS
client_secret_content == IF Truthy(envSecretsContent) THEN envSecretsContent ELSE envSecrets

\* HandleClientSecrets going on without the file instead of raising at line 63
HandleClientSecretsLenient ==
    /\ pc = "client_secrets"
    /\ IF secretsFile = <<>> /\ Truthy(client_secret_content) /\ writable
         THEN secretsFile' = <<client_secret_content[1]>>
         ELSE UNCHANGED secretsFile
    /\ pc' = IF secretsFile = <<>> /\ Truthy(client_secret_content) /\ ~writable
             THEN "failed" ELSE "load"
    /\ UNCHANGED <<tokenFile, creds, service, loaded, refreshCalls, flowRuns,
                   persistFailed, now>>
    /\ UNCHANGED <<envVars, reqVars>>

\* lines 53-63: create client_secrets.json from the environment when it does not exist
HandleClientSecrets ==
    /\ pc = "client_secrets"
    /\ IF secretsFile # <<>>
         THEN pc' = "load" /\ UNCHANGED secretsFile
         ELSE IF Truthy(client_secret_content)
              THEN IF writable
                   THEN pc' = "load" /\ secretsFile' = <<client_secret_content[1]>>
                   ELSE pc' = "failed" /\ UNCHANGED secretsFile
              ELSE pc' = "failed" /\ UNCHANGED secretsFile
    /\ UNCHANGED <<tokenFile, creds, service, loaded, refreshCalls, flowRuns,
                   persistFailed, now>>
    /\ UNCHANGED <<envVars, reqVars>>

\* lines 69-72: creds = None, then load token.json if it exists
LoadCredentials ==
    /\ pc = "load"
    /\ creds' = IF tokenFile # <<>>
                 THEN <<from_authorized_user_file(tokenFile[1])>>
                 ELSE <<>>
    /\ loaded' = creds'
    /\ pc' = "check"
    /\ UNCHANGED <<tokenFile, secretsFile, service, refreshCalls, flowRuns,
                   persistFailed, now>>
    /\ UNCHANGED <<envVars, reqVars>>

\* line 74 false: the loaded credential is valid, lines 75-81 are skipped
KeepCredentials ==
    /\ pc = "check"
    /\ ~NeedsCredential(creds, now)
    /\ pc' = "build"
    /\ UNCHANGED <<tokenFile, secretsFile, creds, service, loaded, refreshCalls,
                   flowRuns, persistFailed, now>>
    /\ UNCHANGED <<envVars, reqVars>>

\* lines 75-76: creds.refresh(Request()); an exception it raises ends the import
RefreshCredentials ==
    /\ pc = "check"
    /\ NeedsCredential(creds, now)
    /\ CanRefresh(creds, now)
    /\ refreshCalls' = refreshCalls + 1
    /\ \E ok \in BOOLEAN :
          IF ok
          THEN creds' = <<Refreshed(creds[1], now)>> /\ pc' = "persist"
          ELSE pc' = "failed" /\ UNCHANGED creds
    /\ UNCHANGED <<tokenFile, secretsFile, service, loaded, flowRuns,
                   persistFailed, now>>
    /\ UNCHANGED <<envVars, reqVars>>

\* lines 77-79: the interactive flow; an exception it raises ends the import
RunFlow ==
    /\ pc = "check"
    /\ NeedsCredential(creds, now)
    /\ ~CanRefresh(creds, now)
    /\ flowRuns' = flowRuns + 1
    /\ \E ok \in BOOLEAN :
          IF ok
          THEN creds' = <<Authorized(now)>> /\ pc' = "persist"
          ELSE pc' = "failed" /\ UNCHANGED creds
    /\ UNCHANGED <<tokenFile, secretsFile, service, loaded, refreshCalls,
                   persistFailed, now>>
    /\ UNCHANGED <<envVars, reqVars>>

\* PersistCredentials with the write of lines 80-81 left out
PersistCredentialsSkipped ==
    /\ pc = "persist"
    /\ pc' = "build"
    /\ UNCHANGED <<tokenFile, persistFailed>>
    /\ UNCHANGED <<secretsFile, creds, service, loaded, refreshCalls, flowRuns, now>>
    /\ UNCHANGED <<envVars, reqVars>>

\* lines 80-81: write creds.to_json() to token.json; no handler surrounds the write
PersistCredentials ==
    /\ pc = "persist"
    /\ IF writable
         THEN tokenFile' = <<to_json(creds[1])>> /\ pc' = "build"
                /\ UNCHANGED persistFailed
         ELSE pc' = "failed" /\ persistFailed' = TRUE /\ UNCHANGED tokenFile
    /\ UNCHANGED <<secretsFile, creds, service, loaded, refreshCalls, flowRuns, now>>
    /\ UNCHANGED <<envVars, reqVars>>

\* line 83: service = build('calendar', 'v3', credentials=creds)
BuildService ==
    /\ pc = "build"
    /\ service' = <<"calendar">>
    /\ pc' = "serving"
    /\ UNCHANGED <<tokenFile, secretsFile, creds, loaded, refreshCalls, flowRuns,
                   persistFailed, now>>
    /\ UNCHANGED <<envVars, reqVars>>

\* time passes while the process serves
Tick ==
    /\ pc = "serving"
    /\ now < MaxTime
    /\ now' = now + 1
    /\ UNCHANGED <<startupVars, envVars, reqVars>>

----------------------------------------------------------------------------
(* Models, lines 88-122 *)

\* CalendarEvent: fields without a default, and fields with one
CalendarEventRequired == {"title", "startDateTime", "endDateTime"}
CalendarEventOptional == {"description"}

\* BookingPayload: fields without a default, and fields with one
BookingPayloadRequired ==
    {"customerEmail", "customerFirstName", "customerLastName", "tourType",
     "numberOfParticipants", "bookingDate", "bookingTime", "isParticipantAdult",
     "hasAcceptedTerms", "paymentMethod", "paymentStatus", "tourPrice",
     "calendarEvent", "fulfillmentStatus", "orderTimestamp"}
BookingPayloadOptional == {"customerPhone", "digitalSignature"}

\* the JSON object d without the key k
Without(d, k) == [f \in DOMAIN d \ {k} |-> d[f]]

\* MissingFields with customerEmail declared Optional
MissingFieldsEmailOptional(json) ==
    ((BookingPayloadRequired \ {"customerEmail"}) \ DOMAIN json)
    \cup (IF "calendarEvent" \in DOMAIN json
          THEN {"calendarEvent." \o f : f \in CalendarEventRequired \ DOMAIN json.calendarEvent}
          ELSE {})

\* the required fields of the model a JSON body lacks (the request is rejected with
\* 422 when there are any; the handler does not run)
MissingFields(json) ==
    (BookingPayloadRequired \ DOMAIN json)
    \cup (IF "calendarEvent" \in DOMAIN json
          THEN {"calendarEvent." \o f : f \in CalendarEventRequired \ DOMAIN json.calendarEvent}
          ELSE {})

\* the value of field f of a validated model: absent optional fields are None
Field(json, f) == IF f \in DOMAIN json THEN json[f] ELSE None

\* the BookingPayload object built from a JSON body that passed validation
ParseBooking(json) ==
    [f \in BookingPayloadRequired \cup BookingPayloadOptional |->
        IF f = "calendarEvent"
        THEN [g \in CalendarEventRequired \cup CalendarEventOptional |->
                 Field(json.calendarEvent, g)]
        ELSE Field(json, f)]

----------------------------------------------------------------------------
(* Inputs of the routes *)

OperatorEmail == "yourofficialteam@gmail.com"

\* a complete JSON body for POST /create-booking-event
FullBooking(email, tour, title, slot) ==
    [customerEmail |-> email, customerFirstName |-> "Asha", customerLastName |-> "Rao",
     customerPhone |-> "555-0100", tourType |-> tour, numberOfParticipants |-> 2,
     bookingDate |-> "2025-06-01", bookingTime |-> "09:00", isParticipantAdult |-> TRUE,
     hasAcceptedTerms |-> TRUE, digitalSignature |-> "A. Rao", paymentMethod |-> "card",
     paymentStatus |-> "paid", tourPrice |-> 120,
     calendarEvent |-> [title |-> title, description |-> "Reef trip",
                        startDateTime |-> slot[1], endDateTime |-> slot[2]],
     fulfillmentStatus |-> "confirmed", orderTimestamp |-> "2025-05-20T10:00:00"]

BaseBooking == FullBooking("a@b.com", "Snorkeling", "Morning Tour",
                           <<"2025-06-01T09:00:00", "2025-06-01T11:00:00">>)

\* complete bodies: the base one, one differing in every field the event is built
\* from, and one whose customer is the operator
FullBookings ==
    {BaseBooking,
     FullBooking("c@d.org", "Hike", "Trip",
                 <<"2025-07-02T16:30:00+05:30", "2025-07-02T18:00:00+05:30">>),
     FullBooking(OperatorEmail, "Hike", "Hike",
                 <<"2025-06-01T09:00:00", "2025-06-01T09:00:00">>)}

\* the JSON bodies sent to POST /create-booking-event: complete ones, and the base
\* body with one field (of the payload or of its calendarEvent) left out
BookingBodies ==
    FullBookings
    \cup {Without(BaseBooking, k) : k \in DOMAIN BaseBooking}
    \cup {[BaseBooking EXCEPT !.calendarEvent = Without(BaseBooking.calendarEvent, k)] :
             k \in DOMAIN BaseBooking.calendarEvent}

\* the JSON objects sent to the legacy POST /create-event
LegacyBodies ==
    {[summary |-> "Team sync"],
     [summary |-> "Review", location |-> "Room 2"]}

\* the events the remote calendar API answers an insert with
CreatedEvents ==
    {[id |-> "evt1", htmlLink |-> "https://calendar/evt1"],
     [id |-> "evt2", htmlLink |-> "https://calendar/evt2"]}

\* the messages of the exceptions .execute() raises
ErrorMessages == {"quota exceeded", "invalid_grant"}

\* what events().insert(...).execute() does: returns an event or raises
RemoteOutcomes ==
    {[raised |-> FALSE, event |-> e] : e \in CreatedEvents}
    \cup {[raised |-> TRUE, message |-> m] : m \in ErrorMessages}

----------------------------------------------------------------------------
(* Routes, lines 127-211 *)

\* str with a fixed text in place of the exception's message
strGeneric(outcome) == "Internal Server Error"

\* str(e) of the exception a remote call raised
str(outcome) == outcome.message

\* lines 145 and 211: raise HTTPException(status_code=500, detail=str(e))
HTTPException500(outcome) == [status_code |-> 500, body |-> [detail |-> str(outcome)]]

\* the framework's answer to a body that fails validation
ValidationError(missing) == [status_code |-> 422, body |-> [detail |-> missing]]

\* the call service.events().insert(calendarId=..., body=..., sendUpdates='all'),
\* with the credential the service client holds and the time of the call
Insert(body) ==
    [calendarId |-> "primary", body |-> body, sendUpdates |-> "all",
     credential |-> creds[1], at |-> now]

\* Summary with the two parts in the other order
SummarySwapped(booking) == booking.tourType \o " - " \o booking.calendarEvent.title

\* line 154
Summary(booking) == booking.calendarEvent.title \o " - " \o booking.tourType

\* "Yes" if b else "No"
YesNo(b) == IF b THEN "Yes" ELSE "No"

\* lines 155-178: the values the description embeds, in the order of the text
Description(booking) ==
    <<booking.customerFirstName, booking.customerLastName, booking.customerEmail,
      booking.customerPhone, booking.tourType, booking.numberOfParticipants,
      YesNo(booking.isParticipantAdult), booking.bookingDate, booking.bookingTime,
      booking.paymentMethod, booking.paymentStatus, booking.tourPrice,
      booking.fulfillmentStatus, booking.orderTimestamp,
      YesNo(booking.hasAcceptedTerms),
      IF booking.digitalSignature \in {None, ""} THEN "N/A" ELSE booking.digitalSignature>>

\* lines 180-195
EventBody(booking) ==
    [summary |-> Summary(booking),
     description |-> Description(booking),
     start |-> [dateTime |-> booking.calendarEvent.startDateTime, timeZone |-> "Asia/Kolkata"],
     end |-> [dateTime |-> booking.calendarEvent.endDateTime, timeZone |-> "Asia/Kolkata"],
     attendees |-> <<[email |-> booking.customerEmail], [email |-> OperatorEmail]>>]

\* BookingSuccess with the link and the identifier taken from each other's key
BookingSuccessSwapped(created_event) ==
    [status_code |-> 200,
     body |-> [status |-> "success",
               message |-> "Booking event created successfully and invite sent!",
               eventLink |-> created_event.id,
               eventId |-> created_event.htmlLink]]

\* lines 203-208
BookingSuccess(created_event) ==
    [status_code |-> 200,
     body |-> [status |-> "success",
               message |-> "Booking event created successfully and invite sent!",
               eventLink |-> created_event.htmlLink,
               eventId |-> created_event.id]]

\* line 143
LegacySuccess(created_event) ==
    [status_code |-> 200, body |-> [status |-> "success", event |-> created_event]]

\* lines 127-130: GET /
root_redirect ==
    /\ pc = "serving"
    /\ req' = <<[method |-> "GET", path |-> "/"]>>
    /\ call' = <<>>
    /\ resp' = <<[status_code |-> 307, body |-> [location |-> "/docs"]]>>
    /\ UNCHANGED <<startupVars, envVars, now>>

\* lines 133-145: POST /create-event
create_event ==
    /\ pc = "serving"
    /\ \E event \in LegacyBodies, outcome \in RemoteOutcomes :
          /\ req' = <<[method |-> "POST", path |-> "/create-event", json |-> event]>>
          /\ call' = <<[request |-> Insert(event), outcome |-> outcome]>>
          /\ resp' = IF outcome.raised
                     THEN <<HTTPException500(outcome)>>
                     ELSE <<LegacySuccess(outcome.event)>>
    /\ UNCHANGED <<startupVars, envVars, now>>

\* lines 148-211: POST /create-booking-event
create_booking_event ==
    /\ pc = "serving"
    /\ \E json \in BookingBodies :
          /\ req' = <<[method |-> "POST", path |-> "/create-booking-event", json |-> json]>>
          /\ IF MissingFields(json) # {}
             THEN /\ call' = <<>>
                  /\ resp' = <<ValidationError(MissingFields(json))>>
             ELSE \E outcome \in RemoteOutcomes :
                  LET booking == ParseBooking(json)
                  IN  /\ call' = <<[request |-> Insert(EventBody(booking)),
                                    outcome |-> outcome]>>
                      /\ resp' = IF outcome.raised
                                 THEN <<HTTPException500(outcome)>>
                                 ELSE <<BookingSuccess(outcome.event)>>
    /\ UNCHANGED <<startupVars, envVars, now>>

Next ==
    \/ HandleTokenJson
    \/ HandleClientSecrets
    \/ LoadCredentials
    \/ KeepCredentials
    \/ RefreshCredentials
    \/ RunFlow
    \/ PersistCredentials
    \/ BuildService
    \/ Tick
    \/ root_redirect
    \/ create_event
    \/ create_booking_event

Spec == Init /\ [][Next]_vars

----------------------------------------------------------------------------
(* Properties *)

\* the request handled last was a POST to the given path
Posted(path) == req # <<>> /\ req[1].method = "POST" /\ req[1].path = path

\* the credential loaded at line 72 was valid when line 74 tested it
LoadedValid == loaded # <<>> /\ valid(loaded[1], StartTime)

\* the credential loaded at line 72 was expired and carried a refresh token
LoadedExpiredWithRefreshToken ==
    /\ loaded # <<>>
    /\ expired(loaded[1], StartTime)
    /\ loaded[1].refresh_token # None

\* the credential loaded at line 72 was invalid and not refreshable by line 75
LoadedInvalidNotRefreshable ==
    /\ loaded # <<>>
    /\ ~valid(loaded[1], StartTime)
    /\ ~(expired(loaded[1], StartTime) /\ loaded[1].refresh_token # None)

\* the module-level code got past line 81
PastPersist == pc \in {"build", "serving"}

C2_RefreshOncePersistBeforeBuild ==
    LoadedExpiredWithRefreshToken =>
        /\ flowRuns = 0
        /\ refreshCalls <= 1
        /\ (pc \in {"persist", "build", "serving"} => refreshCalls = 1)
        /\ (PastPersist \/ service # <<>> \/ req # <<>> =>
               /\ creds[1].token = "at_refreshed"
               /\ ~expired(creds[1], StartTime)
               /\ tokenFile # <<>>
               /\ tokenFile[1][2] = "at_refreshed"
               /\ from_authorized_user_file(tokenFile[1]) = creds[1])

C2_Witness ==
    LoadedExpiredWithRefreshToken /\ service # <<>> /\ Posted("/create-booking-event")

\* C3: if the loaded credential is valid, the interactive flow is never invoked on
\* any path from startup to the service client being built (nor afterwards).
C3_ValidNeverRunsFlow == LoadedValid => flowRuns = 0

C3_Witness == LoadedValid /\ service # <<>> /\ pc = "serving"

\* C4: a failure to write the credential to token.json does not abort startup.
C4_PersistFailureNotFatal == persistFailed => pc # "failed"

\* C5 as claimed: whenever no token.json exists at startup, or the loaded credential is
\* invalid without a usable refresh token, the interactive flow has run and its
\* credential is in token.json by the time the service client is built.
C5_FlowWhenAbsentOrInvalid ==
    (service # <<>> /\ (~hadTokenFile \/ LoadedInvalidNotRefreshable)) =>
        /\ flowRuns = 1
        /\ tokenFile # <<>>
        /\ from_authorized_user_file(tokenFile[1]) = creds[1]

\* C5 as amended: whenever the loaded credential is invalid and is not both expired and
\* carrying a refresh token, the interactive flow is run (once, with no refresh call)
\* and its credential is in token.json before the service client is built.  A missing
\* token.json does not lead to the flow: it is created from TOKEN_FILE_CONTENT and
\* loaded like any other, or startup fails with no flow run and no service client.
C5_FlowWhenInvalidNotRefreshable ==
    /\ LoadedInvalidNotRefreshable =>
          /\ refreshCalls = 0
          /\ (pc \in {"persist", "build", "serving"} => flowRuns = 1)
          /\ (PastPersist \/ service # <<>> =>
                 /\ creds[1].token = "at_flow"
                 /\ tokenFile # <<>>
                 /\ tokenFile[1][2] = "at_flow"
                 /\ from_authorized_user_file(tokenFile[1]) = creds[1])
    /\ (pc \in {"check", "persist", "build", "serving"} => loaded # <<>>)
    /\ (~hadTokenFile /\ ~Truthy(envToken) => flowRuns = 0 /\ service = <<>>)

C5_Witness == LoadedInvalidNotRefreshable /\ service # <<>> /\ flowRuns = 1

\* C6: if client_secrets.json does not exist and neither GOOGLE_CLIENT_SECRETS_CONTENT
\* nor GOOGLE_CLIENT_SECRETS holds a value, startup fails: the module-level code never
\* gets past line 63, no service client exists, no request is handled and no remote
\* call is made.
C6_MissingSecretsFatal ==
    (secretsFile = <<>> /\ ~Truthy(envSecretsContent) /\ ~Truthy(envSecrets)) =>
        /\ pc \in {"token_json", "client_secrets", "failed"}
        /\ creds = <<>>
        /\ service = <<>>
        /\ req = <<>>
        /\ call = <<>>
        /\ resp = <<>>

C6_Witness ==
    /\ secretsFile = <<>> /\ envSecretsContent = <<>> /\ envSecrets = <<>>
    /\ tokenFile # <<>>
    /\ pc = "failed"

\* C7: a POST /create-booking-event whose body lacks a required BookingPayload field
\* (one of the payload, or one of its calendarEvent) is answered with a client error
\* and no events().insert call is made for it.
C7_MissingFieldRejected ==
    Posted("/create-booking-event") =>
        LET json == req[1].json
            lacking ==
                \/ BookingPayloadRequired \ DOMAIN json # {}
                \/ CalendarEventRequired \ DOMAIN json.calendarEvent # {}
        IN  lacking => /\ call = <<>>
                       /\ resp[1].status_code = 422

C7_Witness ==
    /\ Posted("/create-booking-event")
    /\ "customerEmail" \notin DOMAIN req[1].json
    /\ resp[1].status_code = 422

\* C8: when the remote call of POST /create-booking-event raises, the response is an
\* HTTP 500 whose detail is the exception's message, without eventId or eventLink.
C8_RemoteFailureIs500 ==
    (Posted("/create-booking-event") /\ call # <<>> /\ call[1].outcome.raised) =>
        /\ resp[1].status_code = 500
        /\ DOMAIN resp[1].body = {"detail"}
        /\ resp[1].body.detail = call[1].outcome.message

C8_Witness ==
    /\ Posted("/create-booking-event")
    /\ call # <<>>
    /\ call[1].outcome.raised
    /\ resp[1].body.detail = "quota exceeded"

\* C9: for every well-formed booking payload an insert call is made whose body has the
\* summary "{title} - {tourType}", start and end carried verbatim with the time zone
\* Asia/Kolkata, and exactly two attendees: the customer and the operator.
C9_EventBodyFromPayload ==
    Posted("/create-booking-event") =>
        LET json == req[1].json
            wellFormed == /\ BookingPayloadRequired \subseteq DOMAIN json
                          /\ CalendarEventRequired \subseteq DOMAIN json.calendarEvent
        IN  wellFormed =>
              /\ call # <<>>
              /\ LET body == call[1].request.body
                 IN  /\ body.summary = json.calendarEvent.title \o " - " \o json.tourType
                     /\ body.start = [dateTime |-> json.calendarEvent.startDateTime,
                                      timeZone |-> "Asia/Kolkata"]
                     /\ body.end = [dateTime |-> json.calendarEvent.endDateTime,
                                    timeZone |-> "Asia/Kolkata"]
                     /\ Len(body.attendees) = 2
                     /\ body.attendees[1] = [email |-> json.customerEmail]
                     /\ body.attendees[2] = [email |-> "yourofficialteam@gmail.com"]

C9_Witness ==
    /\ Posted("/create-booking-event")
    /\ call # <<>>
    /\ call[1].request.body.summary = "Morning Tour - Snorkeling"
    /\ call[1].request.body.start.dateTime = "2025-06-01T09:00:00"

\* the response carries the body {status, message, eventLink, eventId} of the event
\* the remote API created
SuccessShape ==
    /\ resp[1].status_code = 200
    /\ DOMAIN resp[1].body = {"status", "message", "eventLink", "eventId"}
    /\ resp[1].body.eventLink = call[1].outcome.event.htmlLink
    /\ resp[1].body.eventId = call[1].outcome.event.id

\* C10 as claimed: on both POST routes a request whose insert call succeeds returns
\* HTTP 200 with {status, message, eventLink, eventId} of the created event.
C10_SuccessShapeBothRoutes ==
    (/\ Posted("/create-booking-event") \/ Posted("/create-event")
     /\ call # <<>>
     /\ ~call[1].outcome.raised) => SuccessShape

\* C10 as amended: POST /create-booking-event returns HTTP 200 with {status, message,
\* eventLink, eventId} of the created event; the legacy POST /create-event returns
\* HTTP 200 with {status, event}, event being the created event as the API returned it.
C10_SuccessShapePerRoute ==
    /\ (Posted("/create-booking-event") /\ call # <<>> /\ ~call[1].outcome.raised)
          => SuccessShape
    /\ (Posted("/create-event") /\ call # <<>> /\ ~call[1].outcome.raised) =>
          /\ resp[1].status_code = 200
          /\ DOMAIN resp[1].body = {"status", "event"}
          /\ resp[1].body.status = "success"
          /\ resp[1].body.event = call[1].outcome.event

C10_Witness ==
    /\ Posted("/create-booking-event")
    /\ call # <<>>
    /\ ~call[1].outcome.raised
    /\ resp[1].body.eventId = "evt2"

====
